---- MODULE Spec2Model ----
(***************************************************************************)
(* Model of Protected_Software_Generator_64bits.py: the license-bound      *)
(* block encryption pipeline.  A run selects basic-block ranges of an      *)
(* executable, filters them by relocation density, encrypts every kept     *)
(* range in a copy of the executable under a key derived from the license  *)
(* and the range's virtual start address, and writes the range table and   *)
(* the table of indirect jump/call addresses.                              *)
(*                                                                         *)
(* Files are sequences of bytes (0..255); offset p of a file is element    *)
(* p + 1 of its sequence.  SHA-256 and AES are replaced by small           *)
(* deterministic mixing functions with the same signatures and output      *)
(* lengths; everything built on them (HMAC use, HKDF extract/expand, CTR   *)
(* keystream and XOR) follows the code.  Addresses stay below 2^31.        *)
(***************************************************************************)
EXTENDS Integers, Sequences, FiniteSets, TLC

\* ------------------------------------------------------------------ bounds

\* Number of bytes of the source executable.
FileLen == 48

\* Largest number of CFG nodes the analysis backend reports.
MaxNodes == 2

\* ------------------------------------------------------- program constants

PC_ID_LENGTH == 32

AES_KEY_LENGTH == 16

IV_SIZE == 16

\* hash_function().digest_size for hashlib.sha256
DigestSize == 32

\* width of to_bytes(8, byteorder='little')
AddrBytes == 8

\* pointer width used by the relocation-density filter (block_size // 8)
PtrWidth == 8

\* limit_factor = 1 in the main block
limit_factor == 1

iv == <<194, 64, 236, 208, 99, 99, 98, 223, 191, 211, 184, 242, 124, 59, 128, 2>>

\* ------------------------------------------------------------ byte helpers

Min(a, b) == IF a < b THEN a ELSE b

Max(a, b) == IF a > b THEN a ELSE b

Zeros(n) == [k \in 1..n |-> 0]

RECURSIVE Xor(_, _)
\* bitwise exclusive or of two naturals
Xor(a, b) ==
    IF a = 0 THEN b
    ELSE IF b = 0 THEN a
    ELSE (((a % 2) + (b % 2)) % 2) + 2 * Xor(a \div 2, b \div 2)

RECURSIVE to_bytes_from(_, _)
to_bytes_from(n, len) ==
    IF len = 0 THEN << >>
    ELSE <<n % 256>> \o to_bytes_from(n \div 256, len - 1)

\* the same bytes, most significant first
to_bytes_big(n, len) ==
    LET le == to_bytes_from(n, len)
    IN  [k \in 1..len |-> le[len + 1 - k]]

\* int.to_bytes(len, byteorder='little', signed=False) for 0 <= n < 2^31
\* (the OverflowError cases, n < 0 or n >= 256^len, lie outside the
\* addresses of the model)
to_bytes(n, len) == to_bytes_from(n, len)

\* ------------------------------------------------------- hash, HMAC, HKDF

RECURSIVE MixRange(_, _, _)
\* the mixing function standing in for the SHA-256 compression: a
\* position-weighted sum of the bytes s[lo..hi]
MixRange(s, lo, hi) ==
    IF lo > hi THEN 0
    ELSE IF lo = hi THEN ((s[lo] + 1) * (((lo * 40503) + 12345) % 65521)) % 65521
    ELSE LET mid == (lo + hi) \div 2
         IN  (MixRange(s, lo, mid) + MixRange(s, mid + 1, hi)) % 65521

Mix(s) == (MixRange(s, 1, Len(s)) + (Len(s) * 257)) % 65521

\* hmac.new(key, data, sha256).digest(): DigestSize bytes determined by
\* (key, data)
hmac_digest(key, data) ==
    LET hd == ((Mix(key) * 613) + (Mix(data) * 7) + 17) % 1000003
    IN  [j \in 1..DigestSize |-> ((hd + 7919 * j) % 65521) % 256]

hkdf_extract(salt, ikm) ==
    LET s == IF Len(salt) = 0 THEN Zeros(DigestSize) ELSE salt
    IN  hmac_digest(s, ikm)

RECURSIVE hkdf_expand_loop(_, _, _, _, _, _)
hkdf_expand_loop(prk, info, length, t, okm, i) ==
    IF Len(okm) < length
    THEN LET i2 == i + 1
             t2 == hmac_digest(prk, t \o info \o <<i2 % 256>>)
         IN  hkdf_expand_loop(prk, info, length, t2, okm \o t2, i2)
    ELSE SubSeq(okm, 1, length)

hkdf_expand(prk, info, length) ==
    hkdf_expand_loop(prk, info, length, << >>, << >>, 0)

hkdf(salt, ikm, info, length) ==
    hkdf_expand(hkdf_extract(salt, ikm), info, length)

\* ------------------------------------------------------------ file access

\* file.read(n) at position pos, n >= 0: at most n bytes, fewer at end of file
FileRead(f, pos, n) ==
    IF pos >= Len(f) THEN << >>
    ELSE SubSeq(f, pos + 1, Min(pos + n, Len(f)))

\* file.write(data) at position pos of a file opened "r+b": bytes are
\* overlaid, the file grows (zero filled) only when data reaches past its end
FileWrite(f, pos, data) ==
    IF data = << >> THEN f
    ELSE [k \in 1..Max(Len(f), pos + Len(data)) |->
            IF k > pos /\ k <= pos + Len(data) THEN data[k - pos]
            ELSE IF k <= Len(f) THEN f[k]
            ELSE 0]

\* --------------------------------------------------------------- AES-CTR

RECURSIVE CtrAdd(_, _)
\* the 128-bit big-endian counter block: block + n
CtrAdd(block, n) ==
    IF block = << >> \/ n = 0 THEN block
    ELSE LET last == block[Len(block)] + n
         IN  CtrAdd(SubSeq(block, 1, Len(block) - 1), last \div 256)
             \o <<last % 256>>

\* the block cipher standing in for AES-128: IV_SIZE bytes from (key, block)
AesBlock(key, block) ==
    LET h == ((Mix(key) * 613) + (Mix(block) * 7) + 29) % 1000003
    IN  [j \in 1..IV_SIZE |-> ((h + 104729 * j) % 65521) % 256]

KeyStreamByte(key, k) ==
    AesBlock(key, CtrAdd(iv, (k - 1) \div IV_SIZE))[((k - 1) % IV_SIZE) + 1]

\* a cipher that pads to whole blocks
encrypt_data_padded(data, aes_key) ==
    [k \in 1..(((Len(data) \div IV_SIZE) + 1) * IV_SIZE) |->
        Xor(IF k <= Len(data) THEN data[k] ELSE 0, KeyStreamByte(aes_key, k))]

\* encryptor.update(data) + encryptor.finalize() in CTR mode
encrypt_data(data, aes_key) ==
    [k \in 1..Len(data) |-> Xor(data[k], KeyStreamByte(aes_key, k))]

\* generate_key: pc_id and key_bytes are whatever the two reads return
generate_key(address, lic) ==
    LET pc_id == FileRead(lic, 0, PC_ID_LENGTH)
        key_bytes == FileRead(lic, Len(pc_id), AES_KEY_LENGTH)
    IN  hkdf(to_bytes(address, AddrBytes), key_bytes, pc_id, AES_KEY_LENGTH)

\* ------------------------------------------------------- region selection

TupleLess(a, b) == a[1] < b[1] \/ (a[1] = b[1] /\ a[2] < b[2])

RECURSIVE InsertSorted(_, _)
InsertSorted(x, s) ==
    IF s = << >> THEN <<x>>
    ELSE IF TupleLess(x, Head(s)) THEN <<x>> \o s
    ELSE <<Head(s)>> \o InsertSorted(x, Tail(s))

RECURSIVE sorted(_)
\* sorted(list of (start, end) tuples): ascending in tuple order; equal
\* tuples are kept, nothing is merged
sorted(s) ==
    IF s = << >> THEN << >>
    ELSE InsertSorted(s[Len(s)], sorted(SubSeq(s, 1, Len(s) - 1)))

RECURSIVE InsertByStart(_, _)
InsertByStart(x, s) ==
    IF s = << >> THEN <<x>>
    ELSE IF x[1] < Head(s)[1] THEN <<x>> \o s
    ELSE <<Head(s)>> \o InsertByStart(x, Tail(s))

RECURSIVE sort_by_start(_)
\* list.sort(key=lambda x: x[0]): stable, ties keep their order
sort_by_start(s) ==
    IF s = << >> THEN << >>
    ELSE InsertByStart(s[Len(s)], sort_by_start(SubSeq(s, 1, Len(s) - 1)))

RECURSIVE SortedSeqOfSet(_)
SortedSeqOfSet(S) ==
    IF S = {} THEN << >>
    ELSE LET m == CHOOSE x \in S : \A y \in S : x <= y
         IN  <<m>> \o SortedSeqOfSet(S \ {m})

\* relocs: the loader's relocation records [rebased_addr, symbol]
get_relocation_addresses(relocs, base) ==
    SortedSeqOfSet({r.rebased_addr - base : r \in {q \in relocs : q.symbol = "None"}})

RelocsInBlock(start, end, relocation_addresses) ==
    Cardinality({k \in 1..Len(relocation_addresses) :
                    start <= relocation_addresses[k] /\ relocation_addresses[k] < end})

\* the filter with <= in place of <
KeepBlockLoose(start, end, relocation_addresses) ==
    RelocsInBlock(start, end, relocation_addresses) <= ((end - start) \div PtrWidth)

\* the test of one range: relocs_in_block < expected_relocs
KeepBlock(start, end, relocation_addresses) ==
    RelocsInBlock(start, end, relocation_addresses) < ((end - start) \div PtrWidth)

RECURSIVE filter_loop(_, _, _, _)
filter_loop(rs, relocation_addresses, k, filtered_ranges) ==
    IF k > Len(rs) THEN filtered_ranges
    ELSE filter_loop(rs, relocation_addresses, k + 1,
            IF KeepBlock(rs[k][1], rs[k][2], relocation_addresses)
            THEN Append(filtered_ranges, <<rs[k][1], rs[k][2]>>)
            ELSE filtered_ranges)

filter_blocks_by_relocations(rs, relocation_addresses) ==
    filter_loop(rs, relocation_addresses, 1, << >>)

RECURSIVE SplitNode(_, _, _, _, _)
\* the inner loop over jump_targets for one node, then the remainder
SplitNode(block_start, block_end, targets, limit, acc) ==
    IF targets = << >>
    THEN IF block_end - block_start >= limit
         THEN Append(acc, <<block_start, block_end>>)
         ELSE acc
    ELSE LET target == Head(targets)
         IN  IF block_start < target /\ target < block_end
             THEN SplitNode(target, block_end, Tail(targets), limit,
                      IF target - block_start >= limit
                      THEN Append(acc, <<block_start, target>>)
                      ELSE acc)
             ELSE SplitNode(block_start, block_end, Tail(targets), limit, acc)

RECURSIVE SplitNodes(_, _, _, _)
SplitNodes(nodes, targets, limit, acc) ==
    IF nodes = << >> THEN acc
    ELSE SplitNodes(Tail(nodes), targets, limit,
            SplitNode(Head(nodes).addr, Head(nodes).addr + Head(nodes).size,
                      targets, limit, acc))

\* nodes: cfg.nodes() in iteration order; targets: jump_targets in the
\* iteration order of the set
get_basic_block_ranges(nodes, targets, base, limit) ==
    LET address_ranges == SplitNodes(nodes, targets, limit, << >>)
        rebased == [k \in 1..Len(address_ranges) |->
                       <<address_ranges[k][1] - base, address_ranges[k][2] - base>>]
    IN  sort_by_start(rebased)

\* ---------------------------------------------------- metadata emission

RECURSIVE write_blocks_loop(_, _, _)
write_blocks_loop(bs, k, file) ==
    IF k > Len(bs) THEN file
    ELSE write_blocks_loop(bs, k + 1,
            file \o to_bytes(bs[k][1], AddrBytes) \o to_bytes(bs[k][2], AddrBytes))

\* the bytes of blocks_list.bin
write_blocks_file(bs) == write_blocks_loop(bs, 1, << >>)

RECURSIVE write_call_address_loop(_, _, _)
write_call_address_loop(addresses, k, file) ==
    IF k > Len(addresses) THEN file
    ELSE write_call_address_loop(addresses, k + 1,
            file \o to_bytes(addresses[k], AddrBytes))

\* the bytes of call_address_list.bin
write_call_address_file(addresses) == write_call_address_loop(addresses, 1, << >>)

\* one instruction of a function block: mnemonic, whether op_str names a
\* general register, whether it starts with 'qword ptr', and what
\* int(op_str.split('[')[-1].split(']')[0], 16) gives (<<v>>, or << >> for
\* ValueError)
IsDynamic(insn, text_start, text_end) ==
    /\ (insn.mnemonic \in {"jmp", "jne", "je"} \/ insn.mnemonic = "call")
    /\ \/ insn.has_reg
       \/ /\ insn.qword_ptr
          /\ \/ insn.target = << >>
             \/ (text_start <= insn.target[1] /\ insn.target[1] <= text_end)

RECURSIVE dynamic_loop(_, _, _, _, _, _)
dynamic_loop(insns, k, text_start, text_end, base, dynamic_instructions) ==
    IF k > Len(insns) THEN dynamic_instructions
    ELSE dynamic_loop(insns, k + 1, text_start, text_end, base,
            IF IsDynamic(insns[k], text_start, text_end)
            THEN Append(dynamic_instructions, insns[k].address - base)
            ELSE dynamic_instructions)

\* sections: the executable sections [min_addr, max_addr] (non-empty here)
find_dynamic_jumps_calls_64bit(insns, sections, base) ==
    LET text_start == CHOOSE a \in {x.min_addr : x \in sections} :
                          \A x \in sections : a <= x.min_addr
        text_end == CHOOSE a \in {x.max_addr : x \in sections} :
                          \A x \in sections : a >= x.max_addr
    IN  dynamic_loop(insns, 1, text_start, text_end, base, << >>)

\* ------------------------------------------------------------ the inputs

Perms(S) ==
    {q \in [1..Cardinality(S) -> S] : \A a, b \in 1..Cardinality(S) : a # b => q[a] # q[b]}

Orders(S) == UNION {Perms(T) : T \in SUBSET S}

\* project.loader.main_object.min_addr
ImageBases == {4194304}

\* the source executable's bytes
InputFile == [k \in 1..FileLen |-> (k * 37 + 11) % 256]

\* License.dat as issued, and the lengths it is found with
LicenseBytes == [k \in 1..(PC_ID_LENGTH + AES_KEY_LENGTH) |-> (k * 7 + 3) % 256]

LicenseLens == {PC_ID_LENGTH + AES_KEY_LENGTH, PC_ID_LENGTH + 8, 20}

\* CFG nodes the backend may report, relative to the image base; nodes of a
\* CFG that is not normalized may overlap
CandNodes ==
    { [addr |-> 16, size |-> 8],  [addr |-> 20, size |-> 12],
      [addr |-> 16, size |-> 24], [addr |-> 40, size |-> 8],
      [addr |-> 44, size |-> 8],  [addr |-> 16, size |-> 64],
      [addr |-> 4660, size |-> 8], [addr |-> 32, size |-> 8] }

Cfgs(base) ==
    UNION { { [nodes |-> [k \in 1..Len(ns) |->
                            [addr |-> base + ns[k].addr, size |-> ns[k].size]],
               targets |-> ts]
              : ns \in Perms(N), ts \in Orders({base + n.addr : n \in N}) }
            : N \in {X \in SUBSET CandNodes : Cardinality(X) <= MaxNodes} }

\* relocation records of the binary, relative to the image base
RelocCases ==
    { {},
      {[rebased_addr |-> 16, symbol |-> "None"], [rebased_addr |-> 28, symbol |-> "printf"]},
      {[rebased_addr |-> 16 + 8 * k, symbol |-> "None"] : k \in 0..6},
      {[rebased_addr |-> 16 + 8 * k, symbol |-> "None"] : k \in 0..7} }

RelocInputs(base) ==
    { {[rebased_addr |-> base + r.rebased_addr, symbol |-> r.symbol] : r \in R}
      : R \in RelocCases }

\* what get_exe_fields reports: the text section's virtual address as a hex
\* string (its digits) and its raw file offset
Layouts ==
    { [va |-> <<1, 0>>, raw |-> 16],
      [va |-> <<1, 0>>, raw |-> 12],
      [va |-> <<3, 0>>, raw |-> 16] }

RECURSIVE HexToInt(_, _)
\* int(s, 16) over the digits of s
HexToInt(digits, acc) ==
    IF digits = << >> THEN acc
    ELSE HexToInt(Tail(digits), acc * 16 + Head(digits))

\* executable sections and decoded instructions of the binary; an empty
\* section list makes find_dynamic_jumps_calls_64bit raise ValueError
AnalysisInputs(base) ==
    { [sections |-> {}, insns |-> << >>],
      [sections |-> {[min_addr |-> base + 16, max_addr |-> base + 79]},
       insns |-> << [address |-> base + 22, mnemonic |-> "call", has_reg |-> TRUE,
                     qword_ptr |-> FALSE, target |-> << >>],
                    [address |-> base + 30, mnemonic |-> "jmp", has_reg |-> FALSE,
                     qword_ptr |-> TRUE, target |-> <<base + 40>>],
                    [address |-> base + 36, mnemonic |-> "mov", has_reg |-> TRUE,
                     qword_ptr |-> FALSE, target |-> << >>],
                    [address |-> base + 18, mnemonic |-> "jne", has_reg |-> FALSE,
                     qword_ptr |-> TRUE, target |-> <<base + 4660>>],
                    [address |-> base + 17, mnemonic |-> "call", has_reg |-> FALSE,
                     qword_ptr |-> TRUE, target |-> << >>] >>] }

\* -------------------------------------------------------------- the state

VARIABLES
    pc,                    \* position in the main block / enc_blocks
    argc,                  \* len(sys.argv)
    license_exists,        \* os.path.exists(license_path)
    license,               \* bytes of License.dat
    read_file,             \* bytes of the source executable
    image_base,            \* main_object.min_addr, << >> until a Project is loaded
    reallocation_table,
    ranges,
    basic_blocks,          \* what get_basic_block_ranges returned (history)
    raw_factor,            \* << >> until computed, then <<delta>>
    blocks,                \* enc_blocks' sorted local list
    i,                     \* index of the next block of the loop
    current_position,
    read_pos,              \* file position of read_file
    out_pos,               \* file position of out_file
    out_file,              \* bytes of <name>_out.exe
    blocks_list_bin,
    dynamic_jumps,
    call_address_list_bin,
    files,                 \* the output files that exist
    io_log                 \* the out_file.write calls made, in order

vars == <<pc, argc, license_exists, license, read_file, image_base,
          reallocation_table, ranges, basic_blocks, raw_factor, blocks, i, current_position,
          read_pos, out_pos, out_file, blocks_list_bin, dynamic_jumps,
          call_address_list_bin, files, io_log>>

mainVars == <<argc, license_exists, license, read_file>>

selVars == <<image_base, reallocation_table, ranges, basic_blocks>>

encVars == <<raw_factor, blocks, i, current_position, read_pos, out_pos,
             out_file, io_log>>

metaVars == <<blocks_list_bin, dynamic_jumps, call_address_list_bin>>

Init ==
    /\ pc = "start"
    /\ argc \in {1, 2}
    /\ license_exists \in BOOLEAN
    /\ license \in {SubSeq(LicenseBytes, 1, n) : n \in LicenseLens}
    /\ license_exists = FALSE => license = SubSeq(LicenseBytes, 1, 20)
    /\ read_file = InputFile
    /\ image_base = << >>
    /\ reallocation_table = << >>
    /\ ranges = << >>
    /\ basic_blocks = << >>
    /\ raw_factor = << >>
    /\ blocks = << >>
    /\ i = 0
    /\ current_position = 0
    /\ read_pos = 0
    /\ out_pos = 0
    /\ out_file = << >>
    /\ blocks_list_bin = << >>
    /\ dynamic_jumps = << >>
    /\ call_address_list_bin = << >>
    /\ files = {}
    /\ io_log = << >>

\* if len(sys.argv) < 2: usage, sys.exit(1)
CheckArgs ==
    /\ pc = "start"
    /\ pc' = IF argc < 2 THEN "exit" ELSE "check_license"
    /\ UNCHANGED <<mainVars, selVars, encVars,
                   metaVars, files>>

\* if not os.path.exists(license_path): warning, sys.exit(1)
CheckLicense ==
    /\ pc = "check_license"
    /\ pc' = IF license_exists THEN "get_relocs" ELSE "exit"
    /\ UNCHANGED <<mainVars, selVars, encVars,
                   metaVars, files>>

\* reallocation_table = get_relocation_addresses(binary_path)
GetRelocationAddresses ==
    /\ pc = "get_relocs"
    /\ \E base \in ImageBases : \E relocs \in RelocInputs(base) :
          /\ image_base' = <<base>>
          /\ reallocation_table' = get_relocation_addresses(relocs, base)
    /\ pc' = "get_blocks"
    /\ UNCHANGED <<mainVars, ranges, basic_blocks, encVars, metaVars, files>>

\* ranges = get_basic_block_ranges(binary_path, limit_factor)
GetBasicBlockRanges ==
    /\ pc = "get_blocks"
    /\ \E cfg \in Cfgs(image_base[1]) :
          ranges' = get_basic_block_ranges(cfg.nodes, cfg.targets, image_base[1],
                                           limit_factor)
    /\ basic_blocks' = ranges'
    /\ pc' = "filter"
    /\ UNCHANGED <<mainVars, image_base, reallocation_table, encVars, metaVars,
                   files>>

\* ranges = filter_blocks_by_relocations(ranges, reallocation_table)
FilterBlocks ==
    /\ pc = "filter"
    /\ ranges' = filter_blocks_by_relocations(ranges, reallocation_table)
    /\ pc' = "sort"
    /\ UNCHANGED <<mainVars, image_base, reallocation_table, basic_blocks, encVars,
                   metaVars, files>>

\* ranges = sorted(ranges)
SortRanges ==
    /\ pc = "sort"
    /\ ranges' = sorted(ranges)
    /\ pc' = "enc_open"
    /\ UNCHANGED <<mainVars, image_base, reallocation_table, basic_blocks, encVars,
                   metaVars, files>>

\* start_raw = start_block - raw_factor
StartRawNoDelta(start_block, delta) == start_block

StartRaw(start_block, delta) == start_block - delta

\* end_raw = end_block - raw_factor
EndRawPlusOne(end_block, delta) == end_block - delta + 1

EndRaw(end_block, delta) == end_block - delta

\* the key address taken from the raw offset
KeyAddressRaw(start_block, start_raw) == start_raw

\* generate_key(start_block, ...): the virtual start address is the salt
KeyAddress(start_block, start_raw) == start_block

\* enc_blocks up to the loop: copy the source to the output, compute
\* raw_factor, sort the blocks, open both files at offset 0
EncOpen ==
    /\ pc = "enc_open"
    /\ out_file' = read_file
    /\ files' = files \cup {"out_exe"}
    /\ \E lay \in Layouts : raw_factor' = <<HexToInt(lay.va, 0) - lay.raw>>
    /\ blocks' = sorted(ranges)
    /\ current_position' = 0
    /\ read_pos' = 0
    /\ out_pos' = 0
    /\ i' = 1
    /\ pc' = "enc_loop"
    /\ UNCHANGED <<mainVars, selVars, metaVars,
                   io_log>>

\* one iteration of the loop over blocks
EncBlock ==
    /\ pc = "enc_loop"
    /\ i <= Len(blocks)
    /\ LET start_block == blocks[i][1]
           end_block == blocks[i][2]
           start_raw == StartRaw(start_block, raw_factor[1])
           end_raw == EndRaw(end_block, raw_factor[1])
           gap == start_raw > current_position
           copied == IF gap
                     THEN FileRead(read_file, read_pos, start_raw - current_position)
                     ELSE << >>
           out1 == FileWrite(out_file, out_pos, copied)
           log1 == IF gap
                   THEN Append(io_log, [op |-> "copy", at |-> out_pos, from |-> read_pos,
                                        n |-> Len(copied), plain |-> Len(copied),
                                        blk |-> i])
                   ELSE io_log
           block_to_encrypt == FileRead(read_file, start_raw, end_raw - start_raw)
           cur_key == generate_key(KeyAddress(start_block, start_raw), license)
           encrypted_block == encrypt_data(block_to_encrypt, cur_key)
       IN  IF start_raw < 0
           THEN \* read_file.seek(start_raw, 0) raises OSError
                /\ pc' = "error"
                /\ out_file' = out1
                /\ io_log' = log1
                /\ read_pos' = read_pos + Len(copied)
                /\ out_pos' = out_pos + Len(copied)
                /\ current_position' = IF gap THEN start_raw ELSE current_position
                /\ i' = i
           ELSE /\ pc' = "enc_loop"
                /\ out_file' = FileWrite(out1, start_raw, encrypted_block)
                /\ io_log' = Append(log1, [op |-> "enc", at |-> start_raw,
                                           from |-> start_raw,
                                           n |-> Len(encrypted_block),
                                           plain |-> Len(block_to_encrypt),
                                           blk |-> i])
                /\ read_pos' = start_raw + Len(block_to_encrypt)
                /\ out_pos' = start_raw + Len(encrypted_block)
                /\ current_position' = end_raw
                /\ i' = i + 1
    /\ UNCHANGED <<mainVars, selVars, raw_factor,
                   blocks, metaVars, files>>

\* after the loop: copy the remaining bytes, close both files, return
EncTail ==
    /\ pc = "enc_loop"
    /\ i > Len(blocks)
    /\ LET remaining_size == Len(read_file) - current_position
           copied == IF remaining_size > 0
                     THEN FileRead(read_file, read_pos, remaining_size)
                     ELSE << >>
       IN  /\ out_file' = FileWrite(out_file, out_pos, copied)
           /\ io_log' = IF remaining_size > 0
                        THEN Append(io_log, [op |-> "copy", at |-> out_pos,
                                             from |-> read_pos, n |-> Len(copied),
                                             plain |-> Len(copied), blk |-> 0])
                        ELSE io_log
           /\ read_pos' = read_pos + Len(copied)
           /\ out_pos' = out_pos + Len(copied)
    /\ pc' = "write_blocks"
    /\ UNCHANGED <<mainVars, selVars, raw_factor,
                   blocks, i, current_position, metaVars, files>>

\* the Region table written inside the loop, before the block is encrypted
WriteBlocksFileEarly ==
    /\ pc = "enc_loop"
    /\ i <= Len(blocks)
    /\ blocks_list_bin' = write_blocks_file(ranges)
    /\ files' = files \cup {"blocks_list"}
    /\ pc' = pc
    /\ UNCHANGED <<mainVars, selVars, encVars,
                   dynamic_jumps, call_address_list_bin>>

\* write_blocks_file(ranges, out_dir)
WriteBlocksFile ==
    /\ pc = "write_blocks"
    /\ blocks_list_bin' = write_blocks_file(ranges)
    /\ files' = files \cup {"blocks_list"}
    /\ pc' = "find_dynamic"
    /\ UNCHANGED <<mainVars, selVars, encVars,
                   dynamic_jumps, call_address_list_bin>>

\* dynamic_jumps = find_dynamic_jumps_calls_64bit(binary_path)
FindDynamicJumps ==
    /\ pc = "find_dynamic"
    /\ \E bin \in AnalysisInputs(image_base[1]) :
          IF bin.sections = {}
          THEN /\ pc' = "error"
               /\ dynamic_jumps' = dynamic_jumps
          ELSE /\ pc' = "write_calls"
               /\ dynamic_jumps' = find_dynamic_jumps_calls_64bit(
                                       bin.insns, bin.sections, image_base[1])
    /\ UNCHANGED <<mainVars, selVars, encVars,
                   blocks_list_bin, call_address_list_bin, files>>

\* write_call_address_file(dynamic_jumps, out_dir), then the final prints
WriteCallAddressFile ==
    /\ pc = "write_calls"
    /\ call_address_list_bin' = write_call_address_file(dynamic_jumps)
    /\ files' = files \cup {"call_address_list"}
    /\ pc' = "done"
    /\ UNCHANGED <<mainVars, selVars, encVars,
                   blocks_list_bin, dynamic_jumps>>

Next ==
    \/ CheckArgs
    \/ CheckLicense
    \/ GetRelocationAddresses
    \/ GetBasicBlockRanges
    \/ FilterBlocks
    \/ SortRanges
    \/ EncOpen
    \/ EncBlock
    \/ EncTail
    \/ WriteBlocksFile
    \/ FindDynamicJumps
    \/ WriteCallAddressFile

Spec == Init /\ [][Next]_vars

\* ------------------------------------------------------------ properties

\* raw file offset of a virtual address, once raw_factor is known
Raw(v) == v - raw_factor[1]

\* enc_blocks has returned
EncCompleted ==
    \/ pc \in {"write_blocks", "find_dynamic", "write_calls", "done"}
    \/ (pc = "error" /\ "blocks_list" \in files)

NonOverlapping(bs) ==
    \A a, b \in 1..Len(bs) :
        a # b => (bs[a][2] <= bs[b][1] \/ bs[b][2] <= bs[a][1])

InsideFile(bs) ==
    \A k \in 1..Len(bs) : 0 <= Raw(bs[k][1]) /\ Raw(bs[k][2]) <= Len(read_file)

\* the raw offsets covered by some Region of bs
Covered(bs) ==
    {off \in 0..(Len(read_file) - 1) :
        \E k \in 1..Len(bs) : Raw(bs[k][1]) <= off /\ off < Raw(bs[k][2])}

MachineId == SubSeq(license, 1, Min(PC_ID_LENGTH, Len(license)))

MasterKey == SubSeq(license, PC_ID_LENGTH + 1,
                    Min(PC_ID_LENGTH + AES_KEY_LENGTH, Len(license)))

EncCalls(k) == {j \in 1..Len(io_log) : io_log[j].op = "enc" /\ io_log[j].blk = k}

\* C1: once enc_blocks has returned for a list of pairwise non-overlapping
\* Regions whose raw offsets lie inside the source file, the output bytes at
\* every Region's raw offsets are the encryption of the input bytes at the
\* same offsets under the key derived from the Region's virtual start
\* address, the machineId and the masterKey of the license, and the cipher
\* was invoked exactly once for that Region.
C1_RegionsEncrypted ==
    (EncCompleted /\ NonOverlapping(ranges) /\ InsideFile(ranges)) =>
        \A k \in 1..Len(ranges) :
            LET lo == Raw(ranges[k][1])
                hi == Raw(ranges[k][2])
                key == hkdf(to_bytes(ranges[k][1], AddrBytes), MasterKey, MachineId,
                            AES_KEY_LENGTH)
            IN  /\ SubSeq(out_file, lo + 1, hi)
                     = encrypt_data(SubSeq(read_file, lo + 1, hi), key)
                /\ Cardinality(EncCalls(k)) = 1

\* two Regions, raw offsets shifted by a non-zero delta, all inside the file
C1_Witness ==
    /\ EncCompleted
    /\ Len(ranges) >= 2
    /\ NonOverlapping(ranges)
    /\ InsideFile(ranges)
    /\ raw_factor[1] # 0

\* C2: once enc_blocks has returned, every offset of the file that no
\* Region's raw range covers holds the input byte, for every Region list
\* (overlapping, past the end of the file, or empty, where the output is the
\* input); the source executable is never modified.
C2_VerbatimOutsideRegions ==
    /\ read_file = InputFile
    /\ EncCompleted =>
          /\ \A off \in (0..(Len(read_file) - 1)) \ Covered(ranges) :
                off < Len(out_file) /\ out_file[off + 1] = read_file[off + 1]
          /\ ranges = << >> => out_file = read_file

\* overlapping Regions with uncovered offsets on both sides
C2_Witness ==
    /\ EncCompleted
    /\ Len(ranges) >= 2
    /\ ~NonOverlapping(ranges)
    /\ Covered(ranges) # {}
    /\ (Len(read_file) - 1) \notin Covered(ranges)

\* C3: the output executable always has the size of the input, and every
\* ciphertext written has the length of the plaintext read for it, for any
\* Region list: adjacent Regions, a Region ending at the end of the file, a
\* Region whose raw end lies past the end of the file.
C3_SizePreserved ==
    /\ "out_exe" \in files => Len(out_file) = Len(read_file)
    /\ \A j \in 1..Len(io_log) : io_log[j].n = io_log[j].plain

\* a Region that starts inside the file and ends past its end was encrypted
C3_Witness ==
    /\ EncCompleted
    /\ \E k \in 1..Len(ranges) :
          /\ Raw(ranges[k][1]) < Len(read_file)
          /\ Raw(ranges[k][2]) > Len(read_file)
          /\ EncCalls(k) # {}

\* the Region set is final: filter and sort have both run
RegionsSelected ==
    pc \in {"enc_open", "enc_loop", "write_blocks", "find_dynamic", "write_calls",
            "done"}

\* C4: the final Region set (filter_blocks_by_relocations, then sorted) is
\* strictly ordered by start and no two Regions intersect, whatever basic
\* blocks came in.
C4_StrictlyOrderedDisjoint ==
    RegionsSelected =>
        /\ \A k \in 1..(Len(ranges) - 1) : ranges[k][1] < ranges[k + 1][1]
        /\ NonOverlapping(ranges)

\* addresses of the relocation table inside [start, end)
RelocsInside(r, table) ==
    {table[k] : k \in {m \in 1..Len(table) : r[1] <= table[m] /\ table[m] < r[2]}}

\* the positions of the input that the claim says are kept
KeptPositions(input, table) ==
    {k \in 1..Len(input) :
        Cardinality(RelocsInside(input[k], table)) < ((input[k][2] - input[k][1]) \div 8)}

\* output is the subsequence of input at the positions K, in input order
IsSubsequenceAt(output, input, K) ==
    /\ Len(output) = Cardinality(K)
    /\ \A k \in K : output[Cardinality({m \in K : m <= k})] = input[k]

LicenseSize == PC_ID_LENGTH + AES_KEY_LENGTH

\* C6: a license file shorter than 48 bytes is fatal: no Region is ever
\* encrypted and the run does not complete.
C6_ShortLicenseIsFatal ==
    Len(license) < LicenseSize =>
        /\ \A j \in 1..Len(io_log) : io_log[j].op # "enc"
        /\ pc # "done"

\* C7: enc_blocks does not return when a Region's raw start or raw end lies
\* beyond the end of the source file, and never encrypts fewer bytes than
\* the Region holds.
C7_ShortSourceFails ==
    /\ EncCompleted =>
          \A k \in 1..Len(blocks) :
              Raw(blocks[k][1]) <= Len(read_file) /\ Raw(blocks[k][2]) <= Len(read_file)
    /\ \A j \in 1..Len(io_log) :
          io_log[j].op = "enc" =>
              io_log[j].plain = blocks[io_log[j].blk][2] - blocks[io_log[j].blk][1]

\* int.from_bytes(b, 'little') of 8 bytes; -1 for a value of 2^31 or more,
\* which no address of the model has
from_bytes_little(b) ==
    IF (\E j \in 5..8 : b[j] # 0) \/ b[4] >= 128 THEN -1
    ELSE b[1] + 256 * b[2] + 65536 * b[3] + 16777216 * b[4]

\* the k-th 16-byte record of blocks_list.bin, decoded
Record(k) ==
    <<from_bytes_little(SubSeq(blocks_list_bin, 16 * (k - 1) + 1, 16 * (k - 1) + 8)),
      from_bytes_little(SubSeq(blocks_list_bin, 16 * (k - 1) + 9, 16 * k))>>

\* C8: blocks_list.bin holds exactly 16 bytes per Region and nothing else;
\* its i-th record decodes (8-byte little-endian start, then end) to the
\* i-th Region; records are in ascending start order; no Regions, no bytes.
C8_BlocksFileRoundTrip ==
    "blocks_list" \in files =>
        /\ Len(blocks_list_bin) = 16 * Len(ranges)
        /\ \A k \in 1..Len(ranges) : Record(k) = ranges[k]
        /\ \A k \in 1..(Len(ranges) - 1) : Record(k)[1] <= Record(k + 1)[1]
        /\ ranges = << >> => blocks_list_bin = << >>

\* three Regions made a table of 48 bytes
C8_Witness ==
    /\ "blocks_list" \in files
    /\ Len(ranges) = 3
    /\ Len(blocks_list_bin) = 48

\* position of a statement in the run; a failed or refused run is last
Rank(p) ==
    CASE p = "start" -> 0
      [] p = "check_license" -> 1
      [] p = "get_relocs" -> 2
      [] p = "get_blocks" -> 3
      [] p = "filter" -> 4
      [] p = "sort" -> 5
      [] p = "enc_open" -> 6
      [] p = "enc_loop" -> 7
      [] p = "write_blocks" -> 8
      [] p = "find_dynamic" -> 9
      [] p = "write_calls" -> 10
      [] p = "done" -> 11
      [] OTHER -> 12

AddressesResolved == raw_factor # << >>

AllEncrypted == \A k \in 1..Len(blocks) : EncCalls(k) # {}

\* C9 as stated: the address delta is resolved before the Regions are
\* selected, so whenever the Region set is final the delta is known.
C9_DeltaBeforeRegions == RegionsSelected => AddressesResolved

\* C9 as the code has it: a run moves only forward through Idle,
\* RegionsSelected (filter, then sort), AddressesResolved (the delta is
\* computed inside enc_blocks, after the output copy is made), Encrypting
\* 1..N, MetadataWritten (Region table, then indirect-instruction table),
\* Done; the Region set does not change once selected; no table is written
\* before the last Region is encrypted; a failed run takes no further step.
C9_StageOrder ==
    /\ [](AddressesResolved => (RegionsSelected \/ pc = "error"))
    /\ []("blocks_list" \in files => (AllEncrypted /\ i > Len(blocks)))
    /\ []("call_address_list" \in files => "blocks_list" \in files)
    /\ [](pc = "done" => {"out_exe", "blocks_list", "call_address_list"} \subseteq files)
    /\ [][/\ Rank(pc') >= Rank(pc)
          /\ pc \notin {"exit", "error"}
          /\ RegionsSelected => ranges' = ranges]_vars

\* a complete run over at least two Regions
C9_Witness ==
    /\ pc = "done"
    /\ Len(blocks) >= 2
    /\ AllEncrypted
    /\ AddressesResolved

\* the precondition of C10's first half
Orderly == NonOverlapping(blocks) /\ InsideFile(blocks)

CopyEntries == {j \in 1..Len(io_log) : io_log[j].op = "copy"}

\* offsets written by the copy-through write logged at j
CopiedOffsets(j) == io_log[j].at .. (io_log[j].at + io_log[j].n - 1)

\* block k starts inside a block processed before it
StartsInsideEarlier(k) ==
    \E j \in 1..(k - 1) : blocks[j][1] <= blocks[k][1] /\ blocks[k][1] < blocks[j][2]

====
